---- MODULE Spec2Model ----
(***************************************************************************)
(* Model of recotwix/prot_volumes.py and recotwix/protocol.py.             *)
(*                                                                         *)
(* Python dicts are functions with string domains (a missing key is a key  *)
(* outside DOMAIN).  Mutable resolution dicts live in `heap`, addressed by *)
(* references, so that two objects holding the same dict is visible.        *)
(* Python floats are exact rationals [n, d] in lowest terms.  None is the  *)
(* empty tuple and a present optional value x is <<x>>.                    *)
(***************************************************************************)
EXTENDS Integers, Sequences, FiniteSets, TLC

\* ---------------------------------------------------------------- bounds
MaxHeap == 8            \* resolution dicts alive at one time
MaxSlices == 2          \* entries of sSliceArray.asSlice
MaxFovHalves == 4       \* largest dThickness, in half millimetres
MaxIndex == 3           \* largest |index| asked of a collection

\* ---------------------------------------------------------------- values
None == <<>>
Some(x) == <<x>>

RECURSIVE GCD(_, _)
GCD(a, b) == IF b = 0 THEN a ELSE GCD(b, a % b)

\* a non-negative float n/d, d > 0
Rat(n, d) == LET g == GCD(n, d) IN [n |-> n \div g, d |-> d \div g]

\* int(value) for a non-negative float: truncation
RInt(r) == r.n \div r.d

\* value / k for an int k > 0
RDiv(r, k) == Rat(r.n, r.d * k)

\* dict.get(key, default)
DictGet(d, key, default) == IF key \in DOMAIN d THEN d[key] ELSE default

\* ---------------------------------------------------------------- heap
FreeRefs(h) == (1..MaxHeap) \ DOMAIN h

NewRef(h) == CHOOSE r \in FreeRefs(h) : \A s \in FreeRefs(h) : r <= s

\* a new dict object holding val
Alloc(h, val) == [r \in DOMAIN h \cup {NewRef(h)} |-> IF r \in DOMAIN h THEN h[r] ELSE val]

\* dicts no live object refers to are reclaimed
Collect(h, roots) == [r \in DOMAIN h \cap roots |-> h[r]]

\* References are names only.  To give one object graph one name, the
\* caller's own dict is always reference CallerRef, the dict of a descriptor
\* the caller constructs without res is the next one, and the dicts of a
\* registry follow: Reserve keeps the references in refs from being handed out.
Reserved == {1, 2}
CallerRef == CHOOSE r \in Reserved : \A s \in Reserved : r <= s
Reserve(h, refs) == [r \in DOMAIN h \cup refs |-> IF r \in DOMAIN h THEN h[r] ELSE [x |-> 0, y |-> 0, z |-> 0]]

\* ---------------------------------------------------------------- volume_orientation
\* Each operator below is one group of statements of a method; what the
\* earlier statements computed is passed on as an argument.

\* lines 21-24: _norm, _rot, _pos, _fov
GeometryOf(v) ==
  [norm |-> << DictGet(v.sNormal, "dSag", 0), DictGet(v.sNormal, "dCor", 0), DictGet(v.sNormal, "dTra", 0) >>,
   rot  |-> DictGet(v, "dInPlaneRot", 0),
   pos  |-> << DictGet(DictGet(v, "sPosition", [dNone |-> 0]), "dSag", 0),
               DictGet(DictGet(v, "sPosition", [dNone |-> 0]), "dCor", 0),
               DictGet(DictGet(v, "sPosition", [dNone |-> 0]), "dTra", 0) >>,
   fov  |-> [x |-> v.dReadoutFOV, y |-> v.dPhaseFOV, z |-> v.dThickness]]

\* lines 25-26: the dict res names after `if res is None`: a new dict
\* {key: int(value)} or the caller's own dict, not a copy of it
ResOf(h, g, res) ==
  IF res = None
  THEN [heap |-> Alloc(h, [x |-> RInt(g.fov.x), y |-> RInt(g.fov.y), z |-> RInt(g.fov.z)]),
        ref |-> NewRef(h)]
  ELSE [heap |-> h, ref |-> res[1]]

\* lines 34-40: the fields of the descriptor.  The three Transform Engine
\* calls are recorded as the terms they are applied to, at the time of the call.
Descriptor(h, r, g, t, name) ==
  [outcome |-> "ok", heap |-> h,
   vol |-> [norm |-> g.norm, rot |-> g.rot, pos |-> g.pos, fov |-> g.fov, res |-> r,
            thickness |-> t, name |-> name,
            transformation |->
              [f |-> "calc_tranformation_matrix",
               dcm |-> [f |-> "calc_norm2dcm", norm |-> g.norm, rot |-> g.rot], pos |-> g.pos],
            affine |->
              [f |-> "calc_nifti_affine",
               transformation |->
                 [f |-> "calc_tranformation_matrix",
                  dcm |-> [f |-> "calc_norm2dcm", norm |-> g.norm, rot |-> g.rot], pos |-> g.pos],
               fov |-> g.fov, res |-> h[r], thickness |-> t]]]

\* lines 30-32 without line 32: z = 1 becomes 3, the thickness stays
Degenerate_KeepsThickness(h, r, g, t, name) ==
  IF h[r].z = 1
  THEN Descriptor([h EXCEPT ![r].z = 3], r, g, t, name)
  ELSE Descriptor(h, r, g, t, name)

\* lines 30-32: the correction of res['z'] == 1, written into the dict itself
Degenerate(h, r, g, t, name) ==
  IF h[r].z = 1
  THEN Descriptor([h EXCEPT ![r].z = 3], r, g, RDiv(t, 3), name)
  ELSE Descriptor(h, r, g, t, name)

\* lines 27-28: the thickness, fov z / res z when it is not given
ThicknessOf(h, hr, g, thickness, name) ==
  IF thickness # None
  THEN Degenerate(hr.heap, hr.ref, g, thickness[1], name)
  ELSE IF hr.heap[hr.ref].z = 0
  THEN [outcome |-> "ZeroDivisionError", heap |-> h]
  ELSE Degenerate(hr.heap, hr.ref, g, RDiv(g.fov.z, hr.heap[hr.ref].z), name)

\* volume_orientation.__init__(v, res, thickness, name): res is None or
\* Some(reference to the caller's dict), thickness is None or Some(float)
VolumeOrientation(h, v, res, thickness, name) ==
  ThicknessOf(h, ResOf(h, GeometryOf(v), res), GeometryOf(v), thickness, name)

\* volume_orientation.shape
Shape(h, vol) == << h[vol.res].y, h[vol.res].x, h[vol.res].z >>

\* volume_orientation.fov
Fov(vol) == << vol.fov.y, vol.fov.x, vol.fov.z >>

\* ---------------------------------------------------------------- volume
\* volume.__init__(name): a collection with its own empty list
Volume(name) == [name |-> name, vol_box |-> <<>>]

\* volume.add(vol)
Add(coll, vol) == [coll EXCEPT !.vol_box = Append(@, vol)]

\* volume.__len__
CollLen(coll) == Len(coll.vol_box)

\* volume.__getitem__(index); Python lists accept -len <= index < 0 and raise
\* their own IndexError below -len
GetItemOf(coll, index) ==
  IF index >= Len(coll.vol_box)
  THEN [outcome |-> "IndexError", val |-> <<>>,
        msg |-> << "Item out of range.", coll.name, Len(coll.vol_box), index >>]
  ELSE IF index >= 0
  THEN [outcome |-> "ok", val |-> << coll.vol_box[index + 1] >>, msg |-> <<>>]
  ELSE IF index >= -Len(coll.vol_box)
  THEN [outcome |-> "ok", val |-> << coll.vol_box[Len(coll.vol_box) + index + 1] >>, msg |-> <<>>]
  ELSE [outcome |-> "IndexError", val |-> <<>>, msg |-> << "list index out of range" >>]

\* the end of a collection constructor: self.add(vol) when the descriptor c
\* was constructed, its exception otherwise
Added(h, coll, c) ==
  IF c.outcome # "ok"
  THEN [outcome |-> c.outcome, heap |-> h]
  ELSE [outcome |-> "ok", heap |-> c.heap, coll |-> Add(coll, c.vol)]

\* the loop of volume_slice.__init__: every descriptor is given the same dict r
RECURSIVE SliceLoop(_, _, _, _)
SliceLoop(h, done, slices, r) ==
  IF done.outcome # "ok" \/ slices = <<>>
  THEN done
  ELSE SliceLoop(h, Added(h, done.coll, VolumeOrientation(done.heap, Head(slices), Some(r), None, None)),
                 Tail(slices), r)

\* line 109: in case of 2D scans, lPartitions is not valid
SliceZ(k) == IF k.ucDimension = 4 THEN k.lPartitions ELSE 1

\* volume_slice.__init__ without line 109: lPartitions is used for 2-D scans too
VolumeSlice_AlwaysPartitions(h, xprot) ==
  IF "sSliceArray" \notin DOMAIN xprot
  THEN [outcome |-> "ok", heap |-> h, coll |-> Volume("slice")]
  ELSE IF "asSlice" \notin DOMAIN xprot.sSliceArray
  THEN [outcome |-> "ok", heap |-> h, coll |-> Volume("slice")]
  ELSE IF "sKSpace" \notin DOMAIN xprot
  THEN [outcome |-> "KeyError", heap |-> h]
  ELSE SliceLoop(h,
         [outcome |-> "ok", coll |-> Volume("slice"),
          heap |-> Alloc(h, [x |-> xprot.sKSpace.lBaseResolution,
                             y |-> xprot.sKSpace.lPhaseEncodingLines,
                             z |-> xprot.sKSpace.lPartitions])],
         xprot.sSliceArray.asSlice, NewRef(h))

\* volume_slice.__init__(xprot); the list `positions` it fills is never read
VolumeSlice(h, xprot) ==
  IF "sSliceArray" \notin DOMAIN xprot
  THEN [outcome |-> "ok", heap |-> h, coll |-> Volume("slice")]
  ELSE IF "asSlice" \notin DOMAIN xprot.sSliceArray
  THEN [outcome |-> "ok", heap |-> h, coll |-> Volume("slice")]
  ELSE IF "sKSpace" \notin DOMAIN xprot
  THEN [outcome |-> "KeyError", heap |-> h]
  ELSE SliceLoop(h,
         [outcome |-> "ok", coll |-> Volume("slice"),
          heap |-> Alloc(h, [x |-> xprot.sKSpace.lBaseResolution,
                             y |-> xprot.sKSpace.lPhaseEncodingLines,
                             z |-> SliceZ(xprot.sKSpace)])],
         xprot.sSliceArray.asSlice, NewRef(h))

\* the loop of volume_ptx.__init__: every descriptor derives its own dict
RECURSIVE PtxLoop(_, _, _)
PtxLoop(h, done, vols) ==
  IF done.outcome # "ok" \/ vols = <<>>
  THEN done
  ELSE PtxLoop(h, Added(h, done.coll, VolumeOrientation(done.heap, Head(vols), None, None, None)),
               Tail(vols))

\* volume_ptx.__init__(xprot)
VolumePtx(h, xprot) ==
  IF "sPTXData" \notin DOMAIN xprot
  THEN [outcome |-> "ok", heap |-> h, coll |-> Volume("pTx")]
  ELSE IF "asPTXVolume" \notin DOMAIN xprot.sPTXData
  THEN [outcome |-> "ok", heap |-> h, coll |-> Volume("pTx")]
  ELSE PtxLoop(h, [outcome |-> "ok", heap |-> h, coll |-> Volume("pTx")],
               xprot.sPTXData.asPTXVolume)

\* volume_adjustment.__init__(xprot)
VolumeAdjustment(h, xprot) ==
  IF "sAdjData" \notin DOMAIN xprot
  THEN [outcome |-> "ok", heap |-> h, coll |-> Volume("adjustment")]
  ELSE IF "sAdjVolume" \notin DOMAIN xprot.sAdjData
  THEN [outcome |-> "ok", heap |-> h, coll |-> Volume("adjustment")]
  ELSE Added(h, Volume("adjustment"),
             VolumeOrientation(h, xprot.sAdjData.sAdjVolume, None, None, None))

\* ---------------------------------------------------------------- prot_volumes
\* the class attributes an instance shows when __init__ returns at `param is None`
ClassDefaults == [xprot |-> None, all_volumes |-> <<>>, num_volumes |-> 0]

\* lines 134-152: which protocol the parameter denotes.
\* param is [kind |-> "None"], [kind |-> "dict", d |-> dict] or
\* [kind |-> "path", isfile |-> BOOLEAN, parsed |-> what twixprot.parse_buffer returns]
ResolveParam(param) ==
  IF param.kind = "None" THEN [outcome |-> "return"]
  ELSE IF param.kind = "dict"
  THEN IF "hdr" \in DOMAIN param.d
       THEN IF "MeasYaps" \in DOMAIN param.d.hdr
            THEN [outcome |-> "ok", xprot |-> param.d.hdr.MeasYaps]
            ELSE [outcome |-> "KeyError"]
       ELSE IF "MeasYaps" \in DOMAIN param.d
       THEN [outcome |-> "ok", xprot |-> param.d.MeasYaps]
       ELSE IF "ulVersion" \in DOMAIN param.d
       THEN [outcome |-> "ok", xprot |-> param.d]
       ELSE [outcome |-> "ValueError"]
  ELSE IF param.isfile
  THEN [outcome |-> "ok", xprot |-> param.parsed]
  ELSE [outcome |-> "ValueError"]

\* sum([len(v) for v in self._all_volumes.values()])
RECURSIVE SumLen(_)
SumLen(all) == IF all = <<>> THEN 0 ELSE CollLen(Head(all).coll) + SumLen(Tail(all))

\* line 158: the registry with its collections, in the order they were inserted
Registry(h, xprot, all) ==
  [outcome |-> "ok", raisedIn |-> "", heap |-> h,
   reg |-> [xprot |-> Some(xprot), all_volumes |-> all, num_volumes |-> SumLen(all)]]

\* line 157, after volume_adjustment(self.xprot) returned or raised a
AfterAdjustment(h, xprot, s, p, a) ==
  IF a.outcome # "ok"
  THEN [outcome |-> a.outcome, raisedIn |-> "adj", heap |-> h]
  ELSE Registry(a.heap, xprot, << [tag |-> "slc", coll |-> s.coll], [tag |-> "ptx", coll |-> p.coll],
                                   [tag |-> "adj", coll |-> a.coll] >>)

\* line 156, after volume_ptx(self.xprot) returned or raised p
AfterPtx(h, xprot, s, p) ==
  IF p.outcome # "ok"
  THEN [outcome |-> p.outcome, raisedIn |-> "ptx", heap |-> h]
  ELSE AfterAdjustment(h, xprot, s, p, VolumeAdjustment(p.heap, xprot))

\* line 155, after volume_slice(self.xprot) returned or raised s
AfterSlice(h, xprot, s) ==
  IF s.outcome # "ok"
  THEN [outcome |-> s.outcome, raisedIn |-> "slc", heap |-> h]
  ELSE AfterPtx(h, xprot, s, VolumePtx(s.heap, xprot))

\* lines 154-158: the three collections, in order
BuildVolumes(h, xprot) == AfterSlice(h, xprot, VolumeSlice(h, xprot))

\* lines 134-158, after the parameter was resolved to p
Resolved(h, p) ==
  IF p.outcome = "return"
  THEN [outcome |-> "ok", raisedIn |-> "", heap |-> h, reg |-> ClassDefaults]
  ELSE IF p.outcome # "ok"
  THEN [outcome |-> p.outcome, raisedIn |-> "init", heap |-> h]
  ELSE BuildVolumes(h, p.xprot)

\* prot_volumes.__init__(param)
ProtVolumesInit(h, param) == Resolved(h, ResolveParam(param))

\* get_volume_names() without the len(...) > 0 filter of line 161
GetVolumeNames_AllTags(r) == [i \in 1..Len(r.all_volumes) |-> r.all_volumes[i].tag]

\* the dict entries get_volume_names keeps
NonEmpty(e) == CollLen(e.coll) > 0

\* prot_volumes.get_volume_names()
GetVolumeNames(r) ==
  [i \in 1..Len(SelectSeq(r.all_volumes, NonEmpty)) |-> SelectSeq(r.all_volumes, NonEmpty)[i].tag]

\* prot_volumes.get(volume_name)
GetOf(r, volume_name) ==
  IF \E i \in 1..Len(r.all_volumes) : r.all_volumes[i].tag = volume_name
  THEN [outcome |-> "ok",
        coll |-> Some(r.all_volumes[CHOOSE i \in 1..Len(r.all_volumes) :
                                      r.all_volumes[i].tag = volume_name].coll)]
  ELSE [outcome |-> "ValueError", coll |-> None]

\* ---------------------------------------------------------------- protocol_parse
Abs(x) == IF x < 0 THEN -x ELSE x

\* list.index(x), counted from 0
IndexOf(seq, x) == (CHOOSE i \in 1..Len(seq) : seq[i] = x /\ \A j \in 1..(i - 1) : seq[j] # x) - 1

\* a[0:n] for n >= 0
Slice0(a, n) == SubSeq(a, 1, IF n < Len(a) THEN n ELSE Len(a))

\* alShimCurrent[i] if len(alShimCurrent) > i else 0.0   (i counted from 0)
ShimAt(al, i) == IF Len(al) > i THEN al[i + 1] ELSE 0

\* protocol_parse.__init__(twix_obj).  The statements run in source order, so
\* the first lookup that cannot be done decides the exception: the coil
\* lookup (line 45), then asGPAData defaulting to the float 0.0, which cannot
\* be subscripted (line 49), then alShimCurrent defaulting to 0.0, which has
\* no len() (line 52).
ProtocolParse(twix_obj) ==
  LET hdr  == twix_obj.hdr
      img  == twix_obj.image
      yaps == hdr.MeasYaps
      is3D == yaps.sKSpace.ucDimension = 4
      res  == [x |-> yaps.sKSpace.lBaseResolution, y |-> yaps.sKSpace.lPhaseEncodingLines,
               z |-> IF is3D THEN yaps.sKSpace.lPartitions ELSE yaps.sSliceArray.lSize]
      grad == hdr.Phoenix.sGRADSPEC
  IN  IF "sCoilSelectMeas" \notin DOMAIN yaps
      THEN [outcome |-> "KeyError"]
      ELSE IF "asGPAData" \notin DOMAIN grad
      THEN [outcome |-> "TypeError"]
      ELSE IF "alShimCurrent" \notin DOMAIN grad
      THEN [outcome |-> "TypeError"]
      ELSE
        LET al  == grad.alShimCurrent
            gpa == grad.asGPAData[1]
        IN  [outcome |-> "ok",
             is3D |-> is3D,
             res |-> res,
             isParallelImaging |-> yaps.sPat.ucPATMode = 2,
             isRefScanSeparate |-> yaps.sPat.ucRefScanMode = 4,
             acceleration_factor |-> << yaps.sPat.lAccelFactPE, yaps.sPat.lAccelFact3D >>,
             isPartialFourierRO |-> Abs(res.x - img.shape[(IndexOf(img.dims, "Col") \div 2) + 1]) > 4,
             isPartialFourierPE1 |-> yaps.sKSpace.ucPhasePartialFourier # 16,
             isPartialFourierPE2 |-> yaps.sKSpace.ucSlicePartialFourier # 16,
             protName |-> hdr.Meas.tProtocolName,
             TR |-> Rat(hdr.Meas.alTR[1], 1000),
             TE |-> Slice0(hdr.Meas.alTE, hdr.Meas.lContrasts),
             FA |-> hdr.Meas.adFlipAngleDegree[1],
             coilName |-> yaps.sCoilSelectMeas.aRxCoilSelectData[1].asList[1].sCoilElementID.tCoilID,
             shims |-> [A00 |-> yaps.sTXSPEC.asNucleusInfo[1].lFrequency,
                        X |-> DictGet(gpa, "lOffsetX", 0),
                        Y |-> DictGet(gpa, "lOffsetY", 0),
                        Z |-> DictGet(gpa, "lOffsetZ", 0),
                        A20 |-> ShimAt(al, 0), A21 |-> ShimAt(al, 1), B21 |-> ShimAt(al, 2),
                        A22 |-> ShimAt(al, 3), B22 |-> ShimAt(al, 4), A30 |-> ShimAt(al, 5),
                        A31 |-> ShimAt(al, 6), B31 |-> ShimAt(al, 7), A32 |-> ShimAt(al, 8)]]

\* ---------------------------------------------------------------- inputs
\* a volume structure of the protocol, dThickness = th/2 mm; o picks the orientation
Vol(th, o) ==
  IF o = 1
  THEN [sNormal |-> [dTra |-> 1], dReadoutFOV |-> Rat(5, 2), dPhaseFOV |-> Rat(3, 1),
        dThickness |-> Rat(th, 2)]
  ELSE [sNormal |-> [dSag |-> 1], dInPlaneRot |-> 1, sPosition |-> [dCor |-> 2],
        dReadoutFOV |-> Rat(5, 2), dPhaseFOV |-> Rat(3, 1), dThickness |-> Rat(th, 2)]

VolStructs == { Vol(th, 1) : th \in 1..MaxFovHalves } \cup { Vol(2, 2) }

\* the first k slices of a protocol whose slices are 1 mm and 1.5 mm thick in turn
Slices(k) == [i \in 1..k |-> Vol(2 + ((i + 1) % 2), 1)]

KSpace(dim, parts) ==
  [sKSpace |-> [lBaseResolution |-> 4, lPhaseEncodingLines |-> 2, lPartitions |-> parts,
                ucDimension |-> dim, ucPhasePartialFourier |-> 16, ucSlicePartialFourier |-> 8]]

Base == [ulVersion |-> 1]

SliceSecs ==
  {Base, [sSliceArray |-> [lSize |-> 1]] @@ KSpace(2, 2), [sSliceArray |-> [lSize |-> 1]]}
  \cup { [sSliceArray |-> [lSize |-> k, asSlice |-> Slices(k)]] @@ ks :
           k \in 0..MaxSlices, ks \in {KSpace(2, 2), KSpace(4, 1), KSpace(4, 2)} }
  \cup { [sSliceArray |-> [lSize |-> 1, asSlice |-> Slices(1)]] }

PtxSecs ==
  {Base, [sPTXData |-> [lDummy |-> 0]],
   [sPTXData |-> [asPTXVolume |-> << Vol(1, 2) >>]],
   [sPTXData |-> [asPTXVolume |-> << Vol(MaxFovHalves, 2), Vol(3, 1) >>]]}

AdjSecs ==
  {Base, [sAdjData |-> [uiAdjMode |-> 1]],
   [sAdjData |-> [uiAdjMode |-> 1, sAdjVolume |-> Vol(2, 1)]]}

FullXprot ==
  Base @@ [sSliceArray |-> [lSize |-> 2, asSlice |-> Slices(2)]] @@ KSpace(2, 2)
       @@ [sPTXData |-> [asPTXVolume |-> << Vol(MaxFovHalves, 2), Vol(3, 1) >>]]
       @@ [sAdjData |-> [uiAdjMode |-> 1, sAdjVolume |-> Vol(2, 1)]]

\* protocols with a slice section only, without one, and with all three sections
Xprots ==
  { Base @@ s : s \in SliceSecs } \cup { Base @@ p @@ a : p \in PtxSecs, a \in AdjSecs }
  \cup { FullXprot }

SomeXprot == Base @@ [sAdjData |-> [uiAdjMode |-> 1, sAdjVolume |-> Vol(2, 1)]]
OtherXprot == Base @@ [sPTXData |-> [asPTXVolume |-> << Vol(MaxFovHalves, 2), Vol(3, 1) >>]]

Params ==
  { [kind |-> "None"],
    [kind |-> "dict", d |-> [foo |-> 1]],
    [kind |-> "dict", d |-> [hdr |-> [MeasYaps |-> SomeXprot]]],
    [kind |-> "dict", d |-> [hdr |-> [MeasYaps |-> SomeXprot], MeasYaps |-> OtherXprot]],
    [kind |-> "dict", d |-> [MeasYaps |-> OtherXprot]],
    [kind |-> "dict", d |-> [MeasYaps |-> OtherXprot, ulVersion |-> 1]],
    [kind |-> "path", isfile |-> FALSE, parsed |-> Base],
    [kind |-> "path", isfile |-> TRUE, parsed |-> SomeXprot] }
  \cup { [kind |-> "dict", d |-> x] : x \in Xprots }

\* what the caller may pass as res (nothing, a dict built for the call, the
\* dict built for an earlier call) and as thickness
ResChoices ==
  { [how |-> "none"], [how |-> "held"] }
  \cup { [how |-> "new", val |-> [x |-> 4, y |-> 2, z |-> z]] : z \in {1, 2} }
ThicknessVals == { None, Some(Rat(3, 1)) }

Indices == (-MaxIndex)..MaxIndex \cup {99}

VolumeNames == {"slc", "ptx", "adj", "slice", "unknown"}

FullGPA == [asGPAData |-> << [lOffsetX |-> 7, lOffsetY |-> 8, lOffsetZ |-> 9] >>]
FullShim == [alShimCurrent |-> << 11, 12, 13, 14, 15, 16, 17, 18, 19 >>]

\* sGRADSPEC with everything, and with one optional entry short or absent
GradSpecs ==
  { [ucMode |-> 1] @@ FullGPA @@ FullShim,
    [ucMode |-> 1] @@ FullShim,
    [ucMode |-> 1] @@ [asGPAData |-> << [lOffsetX |-> 7] >>] @@ FullShim,
    [ucMode |-> 1] @@ FullGPA,
    [ucMode |-> 1] @@ FullGPA @@ [alShimCurrent |-> <<>>],
    [ucMode |-> 1] @@ FullGPA @@ [alShimCurrent |-> << 11, 12 >>] }

CoilSecs ==
  { [ucDummy |-> 0],
    [sCoilSelectMeas |-> [aRxCoilSelectData |->
        << [asList |-> << [sCoilElementID |-> [tCoilID |-> "Head_32"]] >>] >>]] }

Twix(grad, coil, dim) ==
  [hdr |-> [MeasYaps |-> KSpace(dim, 8) @@ coil @@
                         [sSliceArray |-> [lSize |-> 3],
                          sPat |-> [ucPATMode |-> 2, ucRefScanMode |-> 4,
                                    lAccelFactPE |-> 2, lAccelFact3D |-> 1],
                          sTXSPEC |-> [asNucleusInfo |-> << [lFrequency |-> 297] >>]],
            Meas |-> [tProtocolName |-> "gre", alTR |-> << 7500 >>, alTE |-> << 3000, 6000 >>,
                      lContrasts |-> 1, adFlipAngleDegree |-> << 15 >>],
            Phoenix |-> [sGRADSPEC |-> grad]],
   image |-> [dims |-> << "Lin", "Cha", "Col" >>, shape |-> << 2, 32, 16 >>]]

FullCoil == CHOOSE c \in CoilSecs : "sCoilSelectMeas" \in DOMAIN c

TwixObjs ==
  { Twix(g, FullCoil, 2) : g \in GradSpecs }
  \cup { Twix([ucMode |-> 1] @@ FullGPA @@ FullShim, c, 4) : c \in CoilSecs }

\* ---------------------------------------------------------------- state
VARIABLES
  heap,       \* the resolution dicts alive: reference -> [x, y, z]
  callerRes,  \* the dict the caller last built to pass as res: None or Some(reference)
  reg,        \* the caller's registry object: None or Some(prot_volumes instance)
  result      \* what the last call was given and what it returned or raised

vars == << heap, callerRes, reg, result >>

RefsOfVols(box) == { box[i].res : i \in 1..Len(box) }

RefsOfReg(r) ==
  IF r = None THEN {}
  ELSE UNION { RefsOfVols(r[1].all_volumes[i].coll.vol_box) : i \in 1..Len(r[1].all_volumes) }

RefsOfOpt(o) == IF o = None THEN {} ELSE {o[1]}

Roots(c, r, res) == RefsOfOpt(c) \cup RefsOfReg(r) \cup RefsOfVols(res.val)

Init ==
  /\ heap = <<>>
  /\ callerRes = None
  /\ reg = None
  /\ result = [op |-> "none", outcome |-> "ok", val |-> <<>>]

\* what the caller passes as res: nothing, the dict built for this call, or
\* the dict it still holds
ResArg(choice) == IF choice.how = "none" THEN None
                  ELSE IF choice.how = "new" THEN Some(CallerRef) ELSE callerRes

\* the dicts alive when the constructor is entered
HeapAtCall(choice) ==
  IF choice.how = "new"
  THEN [r \in DOMAIN Collect(heap, RefsOfReg(reg)) \cup {CallerRef} |->
          IF r = CallerRef THEN choice.val ELSE heap[r]]
  ELSE Reserve(Collect(heap, RefsOfReg(reg) \cup RefsOfOpt(callerRes)), {CallerRef})

\* what a call of volume_orientation that ended as c leaves in result
VolumeResult(c, h0, v, res, thickness) ==
  [op |-> "volume_orientation", outcome |-> c.outcome,
   arg |-> [v |-> v, res |-> IF res = None THEN None ELSE Some(h0[res[1]]),
            thickness |-> thickness],
   val |-> IF c.outcome = "ok" THEN << c.vol >> ELSE <<>>]

\* vol = volume_orientation(v, res=..., thickness=...), ended as c.
\* The descriptor replaces what the last call returned.
VolumeDone(c, h0, v, res, thickness) ==
  /\ result' = VolumeResult(c, h0, v, res, thickness)
  /\ callerRes' = IF res = None THEN callerRes ELSE res
  /\ heap' = Collect(c.heap, Roots(callerRes', reg, result'))
  /\ UNCHANGED reg

\* vol = volume_orientation(v, res=..., thickness=...)
NewVolume(v, choice, thickness) ==
  /\ choice.how = "held" => callerRes # None
  /\ VolumeDone(VolumeOrientation(HeapAtCall(choice), v, ResArg(choice), thickness, None),
                HeapAtCall(choice), v, ResArg(choice), thickness)

\* pv = prot_volumes(param), ended as c: when it returned, pv is the new
\* registry and the old one is gone; when it raised, pv is what it was
ProtVolumesDone(c, param) ==
  /\ result' = [op |-> "prot_volumes", outcome |-> c.outcome, raisedIn |-> c.raisedIn,
                arg |-> param, val |-> <<>>]
  /\ reg' = IF c.outcome = "ok" THEN Some(c.reg) ELSE reg
  /\ heap' = Collect(IF c.outcome = "ok" THEN c.heap ELSE heap, Roots(callerRes, reg', result'))
  /\ UNCHANGED callerRes

\* pv = prot_volumes(param)
ProtVolumes(param) ==
  ProtVolumesDone(ProtVolumesInit(Reserve(Collect(heap, RefsOfOpt(callerRes)), Reserved), param), param)

\* pv.get_volume_names()
VolumeNamesOp ==
  /\ reg # None
  /\ result' = [op |-> "get_volume_names", outcome |-> "ok",
                names |-> GetVolumeNames(reg[1]), val |-> <<>>]
  /\ heap' = Collect(heap, Roots(callerRes, reg, result'))
  /\ UNCHANGED << callerRes, reg >>

\* c = pv.get(volume_name)
Get(volume_name) ==
  /\ reg # None
  /\ result' = [op |-> "get", arg |-> volume_name,
                val |-> IF GetOf(reg[1], volume_name).coll = None THEN <<>>
                        ELSE GetOf(reg[1], volume_name).coll[1].vol_box]
                @@ GetOf(reg[1], volume_name)
  /\ heap' = Collect(heap, Roots(callerRes, reg, result'))
  /\ UNCHANGED << callerRes, reg >>

\* c[index], on the collection the last get returned
GetItem(index) ==
  /\ result.op = "get"
  /\ result.outcome = "ok"
  /\ result' = [op |-> "getitem", arg |-> [coll |-> result.coll[1], index |-> index]]
                @@ GetItemOf(result.coll[1], index)
  /\ heap' = Collect(heap, Roots(callerRes, reg, result'))
  /\ UNCHANGED << callerRes, reg >>

\* protocol_parse(twix_obj)
ParseProtocol(twix_obj) ==
  /\ result' = [op |-> "protocol_parse", arg |-> twix_obj, val |-> <<>>] @@ ProtocolParse(twix_obj)
  /\ heap' = Collect(heap, Roots(callerRes, reg, result'))
  /\ UNCHANGED << callerRes, reg >>

Next ==
  \/ \E v \in VolStructs, choice \in ResChoices, t \in ThicknessVals :
       NewVolume(v, choice, t)
  \/ \E param \in Params : ProtVolumes(param)
  \/ VolumeNamesOp
  \/ \E volume_name \in VolumeNames : Get(volume_name)
  \/ \E index \in Indices : GetItem(index)
  \/ \E twix_obj \in TwixObjs : ParseProtocol(twix_obj)

Spec == Init /\ [][Next]_vars

\* ---------------------------------------------------------------- helpers of the properties
Tags == << "slc", "ptx", "adj" >>

Range(seq) == { seq[i] : i \in 1..Len(seq) }

\* the section of a tag is absent from the protocol at the first or the second key level
SectionAbsent(xprot, tag) ==
  IF tag = "slc"
  THEN "sSliceArray" \notin DOMAIN xprot \/ "asSlice" \notin DOMAIN xprot.sSliceArray
  ELSE IF tag = "ptx"
  THEN "sPTXData" \notin DOMAIN xprot \/ "asPTXVolume" \notin DOMAIN xprot.sPTXData
  ELSE "sAdjData" \notin DOMAIN xprot \/ "sAdjVolume" \notin DOMAIN xprot.sAdjData

\* the protocol a construction call was given, whatever the shape of the parameter
GivenXprot(param) ==
  IF param.kind = "path" THEN param.parsed
  ELSE IF "hdr" \in DOMAIN param.d THEN param.d.hdr.MeasYaps
  ELSE IF "MeasYaps" \in DOMAIN param.d THEN param.d.MeasYaps
  ELSE param.d

\* the parameter has one of the shapes the constructor is documented to accept
Recognised(param) ==
  \/ param.kind = "dict" /\ DOMAIN param.d \cap {"hdr", "MeasYaps", "ulVersion"} # {}
  \/ param.kind = "path" /\ param.isfile

\* the collections a registry holds under a tag
CollsOf(r, tag) == { r.all_volumes[i].coll : i \in { j \in 1..Len(r.all_volumes) : r.all_volumes[j].tag = tag } }

\* a = b / k, for floats a and b and an int k > 0
IsQuotient(a, b, k) == a.n * b.d * k = b.n * a.d

\* every descriptor a registry holds
VolsOfReg(r) ==
  IF r = None THEN {}
  ELSE UNION { Range(r[1].all_volumes[i].coll.vol_box) : i \in 1..Len(r[1].all_volumes) }

\* ---------------------------------------------------------------- C1
\* C1: a section absent from the protocol at either key level never makes
\* registry construction fail, its collection has length 0 and
\* get_volume_names() omits its tag; get_volume_names() returns exactly the
\* tags of the non-empty collections in the order slc, ptx, adj.
C1_AbsentSectionIsEmpty ==
  /\ (result.op = "prot_volumes" /\ Recognised(result.arg)) =>
       LET x == GivenXprot(result.arg)
       IN  /\ \A i \in 1..3 : SectionAbsent(x, Tags[i]) => result.raisedIn # Tags[i]
           /\ (\A i \in 1..3 : SectionAbsent(x, Tags[i])) => result.outcome = "ok"
  /\ (reg # None /\ reg[1].xprot # None) =>
       \A i \in 1..3 :
         SectionAbsent(reg[1].xprot[1], Tags[i]) =>
           /\ \A c \in CollsOf(reg[1], Tags[i]) : Len(c.vol_box) = 0
           /\ CollsOf(reg[1], Tags[i]) # {}
           /\ result.op = "get_volume_names" => Tags[i] \notin Range(result.names)
  /\ result.op = "get_volume_names" =>
       LET nonEmpty(t) == \E c \in CollsOf(reg[1], t) : Len(c.vol_box) > 0
       IN  result.names = SelectSeq(Tags, nonEmpty)

\* C1 witness: the names of a registry built from a protocol without a slice
\* section and with pTx and adjustment volumes
C1_Witness ==
  /\ result.op = "get_volume_names"
  /\ reg[1].xprot # None
  /\ SectionAbsent(reg[1].xprot[1], "slc")
  /\ result.names = << "ptx", "adj" >>

\* ---------------------------------------------------------------- C2
\* C2: a descriptor whose resolution z (supplied, or int(fov z) when not
\* supplied) is 1 gets resolution z 3 and a third of the thickness it had
\* (the supplied one, or fov z / 1); any other descriptor keeps both.
C2_DegenerateZ ==
  (result.op = "volume_orientation" /\ result.outcome = "ok") =>
    LET a   == result.arg
        vol == result.val[1]
        zin == IF a.res = None THEN RInt(a.v.dThickness) ELSE a.res[1].z
        tin == IF a.thickness = None THEN [n |-> a.v.dThickness.n, d |-> a.v.dThickness.d * zin]
               ELSE a.thickness[1]
    IN  IF zin = 1
        THEN /\ heap[vol.res].z = 3
             /\ Shape(heap, vol)[3] = 3
             /\ IsQuotient(vol.thickness, tin, 3)
        ELSE /\ heap[vol.res].z = zin
             /\ IsQuotient(vol.thickness, tin, 1)

\* C2 witness: a descriptor constructed with a supplied resolution z = 1 and
\* a supplied thickness of 3 mm has z = 3 and thickness 1 mm
C2_Witness ==
  /\ result.op = "volume_orientation"
  /\ result.outcome = "ok"
  /\ result.arg.res # None
  /\ result.arg.res[1].z = 1
  /\ result.arg.thickness = Some(Rat(3, 1))
  /\ Shape(heap, result.val[1])[3] = 3
  /\ result.val[1].thickness = Rat(1, 1)

\* ---------------------------------------------------------------- C3
\* C3 as claimed: c[i] with 0 <= i < n is the i-th descriptor, and every i
\* that designates no element (i >= n or i < -n) raises a range error whose
\* message reports the collection name, n and i.
C3_RangeErrorReportsAll ==
  result.op = "getitem" =>
    LET c == result.arg.coll
        n == Len(c.vol_box)
        i == result.arg.index
    IN  /\ (0 <= i /\ i < n) => (result.outcome = "ok" /\ result.val = << c.vol_box[i + 1] >>)
        /\ (i >= n \/ i < -n) =>
             /\ result.outcome = "IndexError"
             /\ Len(result.msg) = 4
             /\ result.msg[2] = c.name /\ result.msg[3] = n /\ result.msg[4] = i

\* ---------------------------------------------------------------- C4
\* C4 as claimed: every registry the constructor returns owns exactly the
\* collections slc, ptx and adj; get(name) returns the named collection for
\* these tags and raises ValueError for every other name.
C4_ThreeCollections ==
  /\ reg # None => [i \in 1..Len(reg[1].all_volumes) |-> reg[1].all_volumes[i].tag] = Tags
  /\ result.op = "get" =>
       IF result.arg \in Range(Tags)
       THEN result.outcome = "ok" /\ result.coll # None
       ELSE result.outcome = "ValueError"

\* ---------------------------------------------------------------- C5
\* C5 as claimed: construction with an argument of no accepted shape raises
\* ValueError and leaves no registry.
C5_UnrecognisedRaises ==
  (result.op = "prot_volumes" /\ ~Recognised(result.arg)) => result.outcome = "ValueError"

\* ---------------------------------------------------------------- C6
\* C6 as claimed: protocol_parse of a header in which an optional shim or
\* coil entry is absent does not raise, and every shim whose source entry is
\* missing is zero.
C6_MissingEntriesDefault ==
  result.op = "protocol_parse" =>
    LET g == result.arg.hdr.Phoenix.sGRADSPEC
        gpaHas(k) == "asGPAData" \in DOMAIN g /\ k \in DOMAIN g.asGPAData[1]
        shimHas(i) == "alShimCurrent" \in DOMAIN g /\ Len(g.alShimCurrent) >= i
    IN  /\ result.outcome = "ok"
        /\ ~gpaHas("lOffsetX") => result.shims.X = 0
        /\ ~gpaHas("lOffsetY") => result.shims.Y = 0
        /\ ~gpaHas("lOffsetZ") => result.shims.Z = 0
        /\ ~shimHas(1) => result.shims.A20 = 0
        /\ ~shimHas(2) => result.shims.A21 = 0
        /\ ~shimHas(3) => result.shims.B21 = 0
        /\ ~shimHas(4) => result.shims.A22 = 0
        /\ ~shimHas(5) => result.shims.B22 = 0
        /\ ~shimHas(6) => result.shims.A30 = 0
        /\ ~shimHas(7) => result.shims.A31 = 0
        /\ ~shimHas(8) => result.shims.B31 = 0
        /\ ~shimHas(9) => result.shims.A32 = 0

\* ---------------------------------------------------------------- C8
\* C8: the slice collection of a protocol with k slices holds k descriptors
\* in source order, all of the shape (lPhaseEncodingLines, lBaseResolution, z)
\* with z from lPartitions when ucDimension = 4 and from 1 otherwise, a z of
\* 1 being corrected to 3; in the non-3-D case every descriptor has z = 3
\* and a thickness of its own dThickness / 3.
C8_SlicesShareShape ==
  (reg # None /\ reg[1].xprot # None /\ ~SectionAbsent(reg[1].xprot[1], "slc")) =>
    LET x   == reg[1].xprot[1]
        sl  == x.sSliceArray.asSlice
        k   == x.sKSpace
        z0  == IF k.ucDimension = 4 THEN k.lPartitions ELSE 1
        z   == IF z0 = 1 THEN 3 ELSE z0
    IN  \A c \in CollsOf(reg[1], "slc") :
          /\ Len(c.vol_box) = Len(sl)
          /\ \A i \in 1..Len(sl) :
               /\ c.vol_box[i].fov.z = sl[i].dThickness
               /\ Shape(heap, c.vol_box[i]) = << k.lPhaseEncodingLines, k.lBaseResolution, z >>
               /\ k.ucDimension # 4 =>
                    /\ Shape(heap, c.vol_box[i])[3] = 3
                    /\ IsQuotient(c.vol_box[i].thickness, sl[i].dThickness, 3)

\* C8 witness: a registry built from a 2-D protocol with at least two slices
\* of different thickness
C8_Witness ==
  /\ reg # None
  /\ reg[1].xprot # None
  /\ ~SectionAbsent(reg[1].xprot[1], "slc")
  /\ reg[1].xprot[1].sKSpace.ucDimension = 2
  /\ \E c \in CollsOf(reg[1], "slc") :
       /\ Len(c.vol_box) >= 2
       /\ c.vol_box[1].thickness = Rat(1, 3)
       /\ c.vol_box[2].thickness = Rat(1, 2)
       /\ Shape(heap, c.vol_box[2]) = << 2, 4, 3 >>

\* ---------------------------------------------------------------- C9
\* C9 as claimed: a descriptor constructed without res from a field of view
\* with all components > 0 is constructed, its resolution is floor(fov) per
\* axis with every component positive, and its thickness before the
\* correction of z = 1 is fov z / resolution z.
C9_DerivedResolution ==
  (result.op = "volume_orientation" /\ result.arg.res = None
     /\ result.arg.v.dReadoutFOV.n > 0 /\ result.arg.v.dPhaseFOV.n > 0
     /\ result.arg.v.dThickness.n > 0) =>
    /\ result.outcome = "ok"
    /\ LET v   == result.arg.v
           vol == result.val[1]
           zin == RInt(v.dThickness)
       IN  /\ heap[vol.res].x = RInt(v.dReadoutFOV) /\ heap[vol.res].x > 0
           /\ heap[vol.res].y = RInt(v.dPhaseFOV) /\ heap[vol.res].y > 0
           /\ zin > 0
           /\ heap[vol.res].z = (IF zin = 1 THEN 3 ELSE zin)
           /\ result.arg.thickness = None =>
                IsQuotient(vol.thickness, v.dThickness, heap[vol.res].z)

\* ---------------------------------------------------------------- C10
\* no dict is held by two descriptors, or by a descriptor and the caller
NoSharedRes ==
  LET vols == VolsOfReg(reg) \cup Range(result.val)
  IN  /\ \A a, b \in vols : a # b => a.res # b.res
      /\ \A a \in vols : callerRes # None => a.res # callerRes[1]

\* the dict the caller passed as res is as it was before the call
CallerMappingKept ==
  (result.op = "volume_orientation" /\ result.arg.res # None) =>
    heap[callerRes[1]] = result.arg.res[1]

\* C10 as claimed: descriptors share no resolution dict with each other or
\* with the caller, a construction leaves the caller's dict unchanged, and
\* the shape, thickness, transformation and affine of the descriptors of a
\* registry stay the same while other objects are constructed.
C10_IndependentState ==
  [][ /\ NoSharedRes'
      /\ CallerMappingKept'
      /\ (reg # None /\ reg' = reg) =>
           \A vol \in VolsOfReg(reg) : Shape(heap', vol) = Shape(heap, vol) ]_vars

====
